---- MODULE Spec2Model ----
(***************************************************************************)
(* The x-specs annotation pipeline of scripts/:                            *)
(*   add-validation-blocks.py        (the Annotator)                       *)
(*   fix-expect-error-placeholders.py (the Classifier)                     *)
(*   remove-invalid-expect-errors.py  (the Reconciler)                     *)
(*                                                                         *)
(* Python strings are sequences of one-character strings, so that          *)
(* str.lower() and the substring test `k in s` are computed, not assumed.  *)
(* A JSON object is a function from its keys to its values (a key that is  *)
(* absent is outside the DOMAIN); a JSON value that is not an object is a  *)
(* record with a single tag field t.  The error messages the Classifier    *)
(* returns are only ever compared for equality and are TLA+ strings.       *)
(***************************************************************************)
EXTENDS Integers, Sequences, FiniteSets, TLC

VARIABLES
    disk,         \* file path -> content of the file on disk
    last,         \* the latest per-document call: stage, path, return value, ...
    phase,        \* how far Annotator -> Classifier -> Reconciler has got, in order
    ran,          \* the stages that have been run so far
    pc,           \* which main() is running ("idle" when none)
    queue,        \* the files the running main() has still to visit, in order
    attempted,    \* file -> count returned, for the files the running (or latest) main() has visited
    total_files,  \* main(): total_files
    total_fixes,  \* main(): total_specs / total_fixes
    summary,      \* the summary the latest finished main() printed
    inp,          \* the arguments of determine_error_message
    out           \* its return value

vars ==
    <<disk, last, phase, ran, pc, queue, attempted, total_files, total_fixes,
      summary, inp, out>>

\* Keywords matched by determine_error_message
kw_invalid ==
    <<"i","n","v","a","l","i","d">>
kw_action ==
    <<"a","c","t","i","o","n">>
kw_format ==
    <<"f","o","r","m","a","t">>
kw_style ==
    <<"s","t","y","l","e">>
kw_aggregation ==
    <<"a","g","g","r","e","g","a","t","i","o","n">>
kw_validation ==
    <<"v","a","l","i","d","a","t","i","o","n">>
kw_error ==
    <<"e","r","r","o","r">>
kw_pattern ==
    <<"p","a","t","t","e","r","n">>
kw_url ==
    <<"u","r","l">>
kw_email ==
    <<"e","m","a","i","l">>
kw_phone ==
    <<"p","h","o","n","e">>
kw_type ==
    <<"t","y","p","e">>
kw_required ==
    <<"r","e","q","u","i","r","e","d">>
kw_minimum ==
    <<"m","i","n","i","m","u","m">>
kw_maximum ==
    <<"m","a","x","i","m","u","m">>
kw_length ==
    <<"l","e","n","g","t","h">>
kw_schema ==
    <<"s","c","h","e","m","a">>

\* String literals of the Annotator
str_example_field ==
    <<"e","x","a","m","p","l","e","_","f","i","e","l","d">>
str_text ==
    <<"t","e","x","t">>

\* Glob roots and patterns of the three main functions
dir_app_tables ==
    <<"s","p","e","c","s","/","a","p","p","/","t","a","b","l","e","s">>
dir_api_tables ==
    <<"s","p","e","c","s","/","a","p","i","/","p","a","t","h","s","/","t","a","b","l","e","s">>
suffix_schema_json ==
    <<".","s","c","h","e","m","a",".","j","s","o","n">>
suffix_json ==
    <<".","j","s","o","n">>

\* Scenario texts
txt_empty ==
    <<>>
txt_field_type_is_email ==
    <<"f","i","e","l","d"," ","t","y","p","e"," ","i","s"," ","e","m","a","i","l">>
txt_invalid_email_is_submitted ==
    <<"i","n","v","a","l","i","d"," ","e","m","a","i","l"," ","i","s"," ","s","u","b","m","i","t","t","e","d">>
txt_validation_error_is_returned ==
    <<"v","a","l","i","d","a","t","i","o","n"," ","e","r","r","o","r"," ","i","s"," ","r","e","t","u","r","n","e","d">>
txt_field_has_invalid_format_value ==
    <<"f","i","e","l","d"," ","h","a","s"," ","i","n","v","a","l","i","d"," ","f","o","r","m","a","t"," ","v","a","l","u","e">>
txt_should_return_validation_error ==
    <<"s","h","o","u","l","d"," ","r","e","t","u","r","n"," ","v","a","l","i","d","a","t","i","o","n"," ","e","r","r","o","r">>
txt_Invalid_option ==
    <<"I","n","v","a","l","i","d"," ","o","p","t","i","o","n">>
txt_value_is_saved ==
    <<"v","a","l","u","e"," ","i","s"," ","s","a","v","e","d">>
txt_request_is_sent ==
    <<"r","e","q","u","e","s","t"," ","i","s"," ","s","e","n","t">>
txt_format_error_is_returned ==
    <<"f","o","r","m","a","t"," ","e","r","r","o","r"," ","i","s"," ","r","e","t","u","r","n","e","d">>
txt_value_is_stored ==
    <<"v","a","l","u","e"," ","i","s"," ","s","t","o","r","e","d">>

\* Words the outcome text is assembled from
w_ERROR ==
    <<"E","R","R","O","R">>
w_returned ==
    <<"r","e","t","u","r","n","e","d">>
w_space ==
    <<" ">>

\* Field names
name_action_type ==
    <<"a","c","t","i","o","n","_","t","y","p","e">>
name_date_format ==
    <<"d","a","t","e","_","f","o","r","m","a","t">>
name_style ==
    <<"s","t","y","l","e">>

\* File paths
path_email ==
    <<"s","p","e","c","s","/","a","p","p","/","t","a","b","l","e","s","/","e","m","a","i","l",".","s","c","h","e","m","a",".","j","s","o","n">>
path_action ==
    <<"s","p","e","c","s","/","a","p","p","/","t","a","b","l","e","s","/","a","c","t","i","o","n",".","s","c","h","e","m","a",".","j","s","o","n">>
path_notes ==
    <<"s","p","e","c","s","/","a","p","p","/","t","a","b","l","e","s","/","n","o","t","e","s",".","j","s","o","n">>
path_api_get ==
    <<"s","p","e","c","s","/","a","p","i","/","p","a","t","h","s","/","t","a","b","l","e","s","/","g","e","t",".","j","s","o","n">>
path_format ==
    <<"s","p","e","c","s","/","a","p","p","/","t","a","b","l","e","s","/","f","o","r","m","a","t",".","s","c","h","e","m","a",".","j","s","o","n">>
path_style ==
    <<"s","p","e","c","s","/","a","p","p","/","t","a","b","l","e","s","/","s","t","y","l","e",".","s","c","h","e","m","a",".","j","s","o","n">>
path_aggregation ==
    <<"s","p","e","c","s","/","a","p","p","/","t","a","b","l","e","s","/","a","g","g","r","e","g","a","t","i","o","n",".","s","c","h","e","m","a",".","j","s","o","n">>
path_url ==
    <<"s","p","e","c","s","/","a","p","p","/","t","a","b","l","e","s","/","u","r","l",".","s","c","h","e","m","a",".","j","s","o","n">>
path_phone ==
    <<"s","p","e","c","s","/","a","p","p","/","t","a","b","l","e","s","/","p","h","o","n","e",".","s","c","h","e","m","a",".","j","s","o","n">>
path_text ==
    <<"s","p","e","c","s","/","a","p","p","/","t","a","b","l","e","s","/","t","e","x","t",".","s","c","h","e","m","a",".","j","s","o","n">>
path_Action ==
    <<"s","p","e","c","s","/","a","p","p","/","t","a","b","l","e","s","/","A","c","t","i","o","n",".","s","c","h","e","m","a",".","j","s","o","n">>
path_email_format ==
    <<"s","p","e","c","s","/","a","p","p","/","t","a","b","l","e","s","/","e","m","a","i","l","-","f","o","r","m","a","t",".","s","c","h","e","m","a",".","j","s","o","n">>

\* ------------------------------------------------------------------------
\* Bounds of the model
MaxThenWords ==
    3

MaxSpecs ==
    2

\* ------------------------------------------------------------------------
\* Python str operations

UpperCase ==
    <<"A","B","C","D","E","F","G","H","I","J","K","L","M",
      "N","O","P","Q","R","S","T","U","V","W","X","Y","Z">>

LowerCase ==
    <<"a","b","c","d","e","f","g","h","i","j","k","l","m",
      "n","o","p","q","r","s","t","u","v","w","x","y","z">>

\* str.lower() on one character
lower_char(c) ==
    IF \E i \in 1..26 : UpperCase[i] = c
    THEN LowerCase[CHOOSE i \in 1..26 : UpperCase[i] = c]
    ELSE c

\* str.lower()
lower(s) ==
    [i \in 1..Len(s) |-> lower_char(s[i])]

\* the substring test `k in s`
contains(s, k) ==
    \E i \in 0..(Len(s) - Len(k)) : SubSeq(s, i + 1, i + Len(k)) = k

\* str.startswith / str.endswith, as the glob patterns use them
startswith(s, p) ==
    Len(p) <= Len(s) /\ SubSeq(s, 1, Len(p)) = p

endswith(s, p) ==
    Len(p) <= Len(s) /\ SubSeq(s, Len(s) - Len(p) + 1, Len(s)) = p

\* dict.get(key, default)
get(d, k, default) ==
    IF k \in DOMAIN d THEN d[k] ELSE default

\* the empty dict {} and the empty string ''
EmptyDict ==
    <<>>

\* JSON null, and a JSON number: values that are not objects
Null ==
    [t |-> "null"]

Number ==
    [t |-> "number"]

\* isinstance(v, dict), for the values stored under x-specs and validation
is_dict(v) ==
    "t" \notin DOMAIN v

\* ------------------------------------------------------------------------
\* The Classifier's rule table (fix-expect-error-placeholders.py)

msg_action ==
    "action must be one of: update_field, open_url, trigger_automation"

msg_format ==
    "must match one of the allowed format values"

msg_style ==
    "must be a valid style option"

msg_aggregation ==
    "must be one of: sum, avg, count, min, max, string_agg"

msg_allowed ==
    "must be one of the allowed values"

msg_url ==
    "must be a valid URL format"

msg_email ==
    "must be a valid email format"

msg_phone ==
    "must be a valid phone number format"

msg_pattern ==
    "must match the required pattern"

msg_type ==
    "must be of the correct type"

msg_required ==
    "is required and cannot be null or empty"

msg_range ==
    "must be within the allowed range"

msg_length ==
    "must meet length requirements"

msg_schema ==
    "must conform to the defined schema"

msg_default ==
    "validation error"

Messages ==
    {msg_action, msg_format, msg_style, msg_aggregation, msg_allowed, msg_url,
     msg_email, msg_phone, msg_pattern, msg_type, msg_required, msg_range,
     msg_length, msg_schema, msg_default}

\* a variant of branch 1 that looks for "format" before "action"
invalid_enum_format_first(file_path, field_name) ==
    IF contains(file_path, kw_format) \/ contains(field_name, kw_format)
    THEN msg_format
    ELSE IF contains(file_path, kw_action) \/ contains(field_name, kw_action)
    THEN msg_action
    ELSE IF contains(file_path, kw_style) \/ contains(field_name, kw_style)
    THEN msg_style
    ELSE IF contains(file_path, kw_aggregation)
    THEN msg_aggregation
    ELSE msg_allowed

\* branch 1: the given or when text mentions "invalid"
invalid_enum_message(file_path, field_name) ==
    IF contains(file_path, kw_action) \/ contains(field_name, kw_action)
    THEN msg_action
    ELSE IF contains(file_path, kw_format) \/ contains(field_name, kw_format)
    THEN msg_format
    ELSE IF contains(file_path, kw_style) \/ contains(field_name, kw_style)
    THEN msg_style
    ELSE IF contains(file_path, kw_aggregation)
    THEN msg_aggregation
    ELSE msg_allowed

\* branch 2, first rule: the then text mentions "pattern" or "format"
pattern_message(file_path) ==
    IF contains(file_path, kw_url) THEN msg_url
    ELSE IF contains(file_path, kw_email) THEN msg_email
    ELSE IF contains(file_path, kw_phone) THEN msg_phone
    ELSE msg_pattern

\* a variant of the tail whose schema rule does not ask for "validation"
schema_without_validation(then_text) ==
    IF contains(then_text, kw_schema)
    THEN msg_schema
    ELSE msg_default

\* the tail of the function: the schema rule, then the generic message
schema_or_default(then_text) ==
    IF contains(then_text, kw_schema) /\ contains(then_text, kw_validation)
    THEN msg_schema
    ELSE msg_default

\* a variant that tries the structural branch before the enumeration branch
determine_structural_first(spec, file_path) ==
    LET given      == lower(get(spec, "given", EmptyDict))
        when       == lower(get(spec, "when", EmptyDict))
        then_text  == lower(get(spec, "then", EmptyDict))
        validation == get(spec, "validation", EmptyDict)
        field_config == get(get(validation, "setup", EmptyDict), "fieldConfig", EmptyDict)
        field_name == get(field_config, "name", EmptyDict)
    IN  IF contains(then_text, kw_validation) \/ contains(then_text, kw_error)
        THEN IF contains(then_text, kw_pattern) \/ contains(then_text, kw_format)
             THEN pattern_message(file_path)
             ELSE IF contains(then_text, kw_type) THEN msg_type
             ELSE IF contains(then_text, kw_required) THEN msg_required
             ELSE IF contains(then_text, kw_minimum) \/ contains(then_text, kw_maximum)
             THEN msg_range
             ELSE IF contains(then_text, kw_length) THEN msg_length
             ELSE schema_or_default(then_text)
        ELSE IF contains(given, kw_invalid) \/ contains(when, kw_invalid)
        THEN invalid_enum_message(file_path, field_name)
        ELSE schema_or_default(then_text)

determine_error_message(spec, file_path) ==
    LET given      == lower(get(spec, "given", EmptyDict))
        when       == lower(get(spec, "when", EmptyDict))
        then_text  == lower(get(spec, "then", EmptyDict))
        validation == get(spec, "validation", EmptyDict)
        field_config == get(get(validation, "setup", EmptyDict), "fieldConfig", EmptyDict)
        field_name == get(field_config, "name", EmptyDict)
    IN  IF contains(given, kw_invalid) \/ contains(when, kw_invalid)
        THEN invalid_enum_message(file_path, field_name)
        ELSE IF contains(then_text, kw_validation) \/ contains(then_text, kw_error)
        THEN IF contains(then_text, kw_pattern) \/ contains(then_text, kw_format)
             THEN pattern_message(file_path)
             ELSE IF contains(then_text, kw_type) THEN msg_type
             ELSE IF contains(then_text, kw_required) THEN msg_required
             ELSE IF contains(then_text, kw_minimum) \/ contains(then_text, kw_maximum)
             THEN msg_range
             ELSE IF contains(then_text, kw_length) THEN msg_length
             ELSE schema_or_default(then_text)
        ELSE schema_or_default(then_text)

\* ------------------------------------------------------------------------
\* JSON values and file contents

\* a JSON string value, as stored under expectError
Str(m) ==
    [t |-> "string", v |-> m]

\* a file json.load() cannot parse
Corrupt ==
    [t |-> "corrupt"]

\* dict[key] = value
set_key(d, k, v) ==
    [f \in (DOMAIN d) \cup {k} |-> IF f = k THEN v ELSE d[f]]

\* del dict[key]
del_key(d, k) ==
    [f \in (DOMAIN d) \ {k} |-> d[f]]

\* what a per-document call hands back: the return value, whether the file was
\* opened for writing, the content the file has afterwards, and whether the
\* except clause was taken
Outcome(ret, wrote, content, raised) ==
    [ret |-> ret, wrote |-> wrote, content |-> content, raised |-> raised]

\* a variant that writes every document back
write_back_always(count) ==
    TRUE

\* `if count > 0:` guarding the write-back, the same test in all three stages
write_back(count) ==
    count > 0

\* a variant of the except clause that flushes what was changed in memory
on_exception_flush(content, data, count) ==
    [ret |-> count, wrote |-> count > 0, content |-> data, raised |-> TRUE]

\* the except clause of the three per-document functions: log, return 0;
\* `data` is dropped and the file keeps the content it had
on_exception(content, data, count) ==
    Outcome(0, FALSE, content, TRUE)

\* the end of the try block of the three per-document functions
on_success(content, data, count) ==
    IF write_back(count)
    THEN Outcome(count, TRUE, data, FALSE)
    ELSE Outcome(0, FALSE, content, FALSE)

\* ------------------------------------------------------------------------
\* The Annotator (add-validation-blocks.py)

placeholder_validation(then_text) ==
    [setup |-> [fieldConfig |-> [name |-> str_example_field, type |-> str_text]],
     assertions |-> << [description |-> then_text,
                        validateConfig |-> TRUE,
                        expectError |-> Null] >>]

\* a variant without the `if 'validation' in spec` guard
add_validation_always(spec) ==
    [spec |-> set_key(spec, "validation",
                      placeholder_validation(get(spec, "then", EmptyDict))),
     was_updated |-> TRUE]

add_validation_to_spec(spec) ==
    IF "validation" \in DOMAIN spec
    THEN [spec |-> spec, was_updated |-> FALSE]
    ELSE [spec |-> set_key(spec, "validation",
                           placeholder_validation(get(spec, "then", EmptyDict))),
          was_updated |-> TRUE]

\* the for loop of process_file, from scenario i on; `'validation' in spec`
\* raises TypeError on a scenario that is a number or null
RECURSIVE annotate_loop(_, _, _)
annotate_loop(specs, i, updated_count) ==
    IF i > Len(specs)
    THEN [raised |-> FALSE, specs |-> specs, count |-> updated_count]
    ELSE IF ~is_dict(specs[i])
    THEN [raised |-> TRUE, specs |-> specs, count |-> updated_count]
    ELSE LET r == add_validation_to_spec(specs[i])
         IN  annotate_loop([specs EXCEPT ![i] = r.spec], i + 1,
                           updated_count + (IF r.was_updated THEN 1 ELSE 0))

process_file(content, file_path) ==
    IF content = Corrupt
    THEN on_exception(content, content, 0)
    ELSE IF "x-specs" \notin DOMAIN content
    THEN Outcome(0, FALSE, content, FALSE)
    ELSE LET r    == annotate_loop(content["x-specs"], 1, 0)
             data == set_key(content, "x-specs", r.specs)
         IN  IF r.raised
             THEN on_exception(content, data, r.count)
             ELSE on_success(content, data, r.count)

\* ------------------------------------------------------------------------
\* The Classifier (fix-expect-error-placeholders.py)

\* `assertion.get('expectError') == None`
is_placeholder(assertion) ==
    get(assertion, "expectError", Null) = Null

\* the inner for loop of fix_expect_error_null over one scenario's assertions
classify_assertions(assertions, spec, file_path) ==
    [i \in 1..Len(assertions) |->
        IF is_placeholder(assertions[i])
        THEN set_key(assertions[i], "expectError",
                     Str(determine_error_message(spec, file_path)))
        ELSE assertions[i]]

count_placeholders(assertions) ==
    Cardinality({i \in 1..Len(assertions) : is_placeholder(assertions[i])})

\* the body of a per-scenario loop shared by the Classifier and the
\* Reconciler: scenarios without a validation key are skipped, and
\* spec['validation'].get raises AttributeError when validation is null
scenario_raises(spec) ==
    \/ ~is_dict(spec)
    \/ "validation" \in DOMAIN spec /\ ~is_dict(spec["validation"])

\* replaces the list stored under assertions; a block without the key is
\* walked as [] and stays without it
with_assertions(spec, assertions) ==
    IF "assertions" \in DOMAIN spec["validation"]
    THEN set_key(spec, "validation",
                 set_key(spec["validation"], "assertions", assertions))
    ELSE spec

RECURSIVE classify_loop(_, _, _, _)
classify_loop(specs, i, fixes_count, file_path) ==
    IF i > Len(specs)
    THEN [raised |-> FALSE, specs |-> specs, count |-> fixes_count]
    ELSE IF scenario_raises(specs[i])
    THEN [raised |-> TRUE, specs |-> specs, count |-> fixes_count]
    ELSE IF "validation" \notin DOMAIN specs[i]
    THEN classify_loop(specs, i + 1, fixes_count, file_path)
    ELSE LET spec       == specs[i]
             assertions == get(spec["validation"], "assertions", <<>>)
             fixed      == classify_assertions(assertions, spec, file_path)
         IN  classify_loop([specs EXCEPT ![i] = with_assertions(spec, fixed)],
                           i + 1, fixes_count + count_placeholders(assertions),
                           file_path)

fix_expect_error_null(content, file_path) ==
    IF content = Corrupt
    THEN on_exception(content, content, 0)
    ELSE IF "x-specs" \notin DOMAIN content
    THEN Outcome(0, FALSE, content, FALSE)
    ELSE LET r    == classify_loop(content["x-specs"], 1, 0, file_path)
             data == set_key(content, "x-specs", r.specs)
         IN  IF r.raised
             THEN on_exception(content, data, r.count)
             ELSE on_success(content, data, r.count)

\* ------------------------------------------------------------------------
\* The Reconciler (remove-invalid-expect-errors.py)

\* `'expected' in assertion and 'expectError' in assertion`
has_both(assertion) ==
    "expected" \in DOMAIN assertion /\ "expectError" \in DOMAIN assertion

\* a variant that deletes expected and keeps expectError
reconcile_dropping_expected(assertions) ==
    [i \in 1..Len(assertions) |->
        IF has_both(assertions[i])
        THEN del_key(assertions[i], "expected")
        ELSE assertions[i]]

\* the inner for loop of fix_invalid_expect_errors over one scenario's assertions
reconcile_assertions(assertions) ==
    [i \in 1..Len(assertions) |->
        IF has_both(assertions[i])
        THEN del_key(assertions[i], "expectError")
        ELSE assertions[i]]

count_both(assertions) ==
    Cardinality({i \in 1..Len(assertions) : has_both(assertions[i])})

RECURSIVE reconcile_loop(_, _, _)
reconcile_loop(specs, i, fixes_count) ==
    IF i > Len(specs)
    THEN [raised |-> FALSE, specs |-> specs, count |-> fixes_count]
    ELSE IF scenario_raises(specs[i])
    THEN [raised |-> TRUE, specs |-> specs, count |-> fixes_count]
    ELSE IF "validation" \notin DOMAIN specs[i]
    THEN reconcile_loop(specs, i + 1, fixes_count)
    ELSE LET spec       == specs[i]
             assertions == get(spec["validation"], "assertions", <<>>)
             fixed      == reconcile_assertions(assertions)
         IN  reconcile_loop([specs EXCEPT ![i] = with_assertions(spec, fixed)],
                            i + 1, fixes_count + count_both(assertions))

fix_invalid_expect_errors(content, file_path) ==
    IF content = Corrupt
    THEN on_exception(content, content, 0)
    ELSE IF "x-specs" \notin DOMAIN content
    THEN Outcome(0, FALSE, content, FALSE)
    ELSE LET r    == reconcile_loop(content["x-specs"], 1, 0)
             data == set_key(content, "x-specs", r.specs)
         IN  IF r.raised
             THEN on_exception(content, data, r.count)
             ELSE on_success(content, data, r.count)

\* ------------------------------------------------------------------------
\* Values shared by the specifications

NoCall ==
    [stage |-> "none", path |-> <<>>, before |-> Corrupt, ret |-> 0,
     wrote |-> FALSE, raised |-> FALSE, ranBefore |-> {}, phaseBefore |-> 0]

NoSummary ==
    [stage |-> "none", total_files |-> 0, total_fixes |-> 0]

NoInput ==
    [given |-> <<>>, when |-> <<>>, then |-> <<>>, path |-> <<>>, name |-> <<>>]

\* Annotator, then Classifier, then Reconciler: the position reached in that
\* order once `stage` has been run
advance(p, stage) ==
    IF \/ p = 0 /\ stage = "annotator"
       \/ p = 1 /\ stage = "classifier"
       \/ p = 2 /\ stage = "reconciler"
    THEN p + 1
    ELSE p

\* ------------------------------------------------------------------------
\* Specification SpecClassify: determine_error_message on drawn arguments

\* the words an outcome text is assembled from, in the order they appear in it
ThenWords ==
    <<kw_schema, kw_validation, kw_error, w_ERROR, kw_pattern, kw_format, kw_type,
      kw_required, kw_minimum, kw_maximum, kw_length, w_returned>>

RECURSIVE join(_)
join(ws) ==
    IF Len(ws) = 0 THEN <<>>
    ELSE IF Len(ws) = 1 THEN ws[1]
    ELSE ws[1] \o w_space \o join(Tail(ws))

\* the words of ThenWords at the positions I, from position i on
RECURSIVE pick(_, _)
pick(I, i) ==
    IF i > Len(ThenWords) THEN <<>>
    ELSE IF i \in I THEN <<ThenWords[i]>> \o pick(I, i + 1)
    ELSE pick(I, i + 1)

\* every outcome text of at most MaxThenWords of these words
ThenPool ==
    {join(pick(I, 1)) : I \in {S \in SUBSET (1..Len(ThenWords)) :
                                  Cardinality(S) <= MaxThenWords}}

GivenPool ==
    {txt_empty, txt_field_has_invalid_format_value, txt_Invalid_option}

WhenPool ==
    {txt_empty, txt_invalid_email_is_submitted}

PathPool ==
    {path_email, path_action, path_format, path_style, path_aggregation,
     path_url, path_phone, path_text, path_Action}

NamePool ==
    {str_example_field, name_action_type, name_date_format, name_style}

\* the scenario determine_error_message is called on
scenario_of(i) ==
    [given |-> i.given, when |-> i.when, then |-> i.then,
     validation |->
        [setup |-> [fieldConfig |-> [name |-> i.name, type |-> str_text]],
         assertions |-> << [description |-> i.then, validateConfig |-> TRUE,
                            expectError |-> Null] >>]]

InitClassify ==
    /\ inp \in [given : GivenPool, when : WhenPool, then : ThenPool,
                path : PathPool, name : NamePool]
    /\ out = "pending"
    /\ disk = <<>>
    /\ last = NoCall
    /\ phase = 0
    /\ ran = {}
    /\ pc = "idle"
    /\ queue = <<>>
    /\ attempted = <<>>
    /\ total_files = 0
    /\ total_fixes = 0
    /\ summary = NoSummary

Determine ==
    /\ out = "pending"
    /\ out' = determine_error_message(scenario_of(inp), inp.path)
    /\ UNCHANGED <<disk, last, phase, ran, pc, queue, attempted, total_files,
                   total_fixes, summary, inp>>

NextClassify ==
    Determine

SpecClassify ==
    InitClassify /\ [][NextClassify]_vars

\* ------------------------------------------------------------------------
\* Specification SpecDoc: the three per-document functions called, in any
\* order, on one document

\* assertions as they are found in the corpus
a_placeholder(then_text) ==
    [description |-> then_text, validateConfig |-> TRUE, expectError |-> Null]

a_success(then_text) ==
    [description |-> then_text, validateConfig |-> TRUE, expected |-> Str("valid")]

a_both(then_text) ==
    [description |-> then_text, validateConfig |-> TRUE, expected |-> Str("valid"),
     expectError |-> Str("custom message")]

a_concrete(then_text) ==
    [description |-> then_text, validateConfig |-> TRUE,
     expectError |-> Str("custom message")]

a_bare(then_text) ==
    [description |-> then_text]

a_success_null(then_text) ==
    [description |-> then_text, expected |-> Str("valid"), expectError |-> Null]

block(field_name, assertions) ==
    [setup |-> [fieldConfig |-> [name |-> field_name, type |-> str_text]],
     assertions |-> assertions]

\* the scenario of the end-to-end example, not yet annotated
s_e2e ==
    [id |-> "S-001", given |-> txt_field_type_is_email,
     when |-> txt_invalid_email_is_submitted,
     then |-> txt_validation_error_is_returned]

\* a failure scenario without the word "invalid", not yet annotated, no given key
s_structural ==
    [id |-> "S-002", when |-> txt_request_is_sent,
     then |-> txt_format_error_is_returned]

\* success scenarios
s_success ==
    [id |-> "S-003", given |-> txt_field_type_is_email, when |-> txt_request_is_sent,
     then |-> txt_value_is_saved,
     validation |-> block(str_example_field, <<a_success(txt_value_is_saved)>>)]

s_both ==
    [id |-> "S-004", given |-> txt_field_type_is_email, when |-> txt_request_is_sent,
     then |-> txt_value_is_stored,
     validation |-> block(str_example_field, <<a_both(txt_value_is_stored)>>)]

\* failure scenarios that already carry a block
s_concrete ==
    [id |-> "S-005", given |-> txt_field_type_is_email,
     when |-> txt_invalid_email_is_submitted,
     then |-> txt_validation_error_is_returned,
     validation |-> block(str_example_field,
                          <<a_concrete(txt_validation_error_is_returned)>>)]

s_placeholder ==
    [id |-> "S-006", given |-> txt_Invalid_option, when |-> txt_request_is_sent,
     then |-> txt_should_return_validation_error,
     validation |-> block(name_action_type,
                          <<a_placeholder(txt_should_return_validation_error)>>)]

s_mixed ==
    [id |-> "S-007", given |-> txt_empty, when |-> txt_request_is_sent,
     then |-> txt_format_error_is_returned,
     validation |-> block(str_example_field,
                          <<a_bare(txt_format_error_is_returned),
                            a_success_null(txt_format_error_is_returned)>>)]

\* a block without an assertions key, and a validation key holding null
s_no_assertions ==
    [id |-> "S-008", given |-> txt_empty, when |-> txt_request_is_sent,
     then |-> txt_value_is_saved,
     validation |-> [setup |-> [fieldConfig |-> [name |-> str_example_field]]]]

s_null_validation ==
    [id |-> "S-009", given |-> txt_empty, when |-> txt_request_is_sent,
     then |-> txt_value_is_saved, validation |-> Null]

ScenarioPool ==
    {s_e2e, s_structural, s_success, s_both, s_concrete, s_placeholder, s_mixed,
     s_no_assertions, s_null_validation, Number}

\* a document that parses and has no x-specs key
NoSpecs ==
    [title |-> "Table"]

document(specs) ==
    [title |-> "Table"] @@ ("x-specs" :> specs)

DocPool ==
    {Corrupt, NoSpecs} \cup
    {document(specs) : specs \in UNION {[1..n -> ScenarioPool] : n \in 0..MaxSpecs}}

DocPaths ==
    {path_email, path_text, path_email_format}

InitDoc ==
    /\ \E p \in DocPaths, d \in DocPool : disk = (p :> d)
    /\ last = NoCall
    /\ phase = 0
    /\ ran = {}
    /\ pc = "idle"
    /\ queue = <<>>
    /\ attempted = <<>>
    /\ total_files = 0
    /\ total_fixes = 0
    /\ summary = NoSummary
    /\ inp = NoInput
    /\ out = "pending"

\* what a call of a per-document function on file_path leaves behind; a
\* document has been through a stage when the call did not end in the except
\* clause
called(stage, file_path, r) ==
    /\ disk' = [disk EXCEPT ![file_path] = r.content]
    /\ last' = [stage |-> stage, path |-> file_path, before |-> disk[file_path],
                ret |-> r.ret, wrote |-> r.wrote, raised |-> r.raised,
                ranBefore |-> ran, phaseBefore |-> phase]

CallAnnotator ==
    \E p \in DOMAIN disk :
        /\ called("annotator", p, process_file(disk[p], p))
        /\ ran' = ran \cup {"annotator"}
        /\ phase' = IF process_file(disk[p], p).raised THEN phase
                     ELSE advance(phase, "annotator")
        /\ UNCHANGED <<pc, queue, attempted, total_files, total_fixes, summary,
                       inp, out>>

CallClassifier ==
    \E p \in DOMAIN disk :
        /\ called("classifier", p, fix_expect_error_null(disk[p], p))
        /\ ran' = ran \cup {"classifier"}
        /\ phase' = IF fix_expect_error_null(disk[p], p).raised THEN phase
                     ELSE advance(phase, "classifier")
        /\ UNCHANGED <<pc, queue, attempted, total_files, total_fixes, summary,
                       inp, out>>

CallReconciler ==
    \E p \in DOMAIN disk :
        /\ called("reconciler", p, fix_invalid_expect_errors(disk[p], p))
        /\ ran' = ran \cup {"reconciler"}
        /\ phase' = IF fix_invalid_expect_errors(disk[p], p).raised THEN phase
                     ELSE advance(phase, "reconciler")
        /\ UNCHANGED <<pc, queue, attempted, total_files, total_fixes, summary,
                       inp, out>>

NextDoc ==
    \/ CallAnnotator
    \/ CallClassifier
    \/ CallReconciler

SpecDoc ==
    InitDoc /\ [][NextDoc]_vars

\* ------------------------------------------------------------------------
\* File discovery: sorted(Path(root).rglob(pattern))

\* the characters of the corpus's paths, in code-point order
CodePoints ==
    <<"-", ".", "/",
      "A","B","C","D","E","F","G","H","I","J","K","L","M",
      "N","O","P","Q","R","S","T","U","V","W","X","Y","Z",
      "_",
      "a","b","c","d","e","f","g","h","i","j","k","l","m",
      "n","o","p","q","r","s","t","u","v","w","x","y","z">>

ord(c) ==
    CHOOSE i \in 1..Len(CodePoints) : CodePoints[i] = c

\* a < b on strings
str_less(a, b) ==
    \E i \in 1..(Len(a) + 1) :
        /\ i <= Len(b)
        /\ SubSeq(a, 1, i - 1) = SubSeq(b, 1, i - 1)
        /\ i > Len(a) \/ ord(a[i]) < ord(b[i])

\* sorted(): every file of the corpus lies directly in its root directory,
\* where the order of paths is the order of their strings
RECURSIVE sorted(_)
sorted(S) ==
    IF S = {} THEN <<>>
    ELSE LET m == CHOOSE x \in S : \A y \in S \ {x} : str_less(x, y)
         IN  <<m>> \o sorted(S \ {m})

\* Path(root).rglob('*' + suffix): the files under root whose name ends in suffix
rglob(files, root, suffix) ==
    {p \in files : startswith(p, root \o <<"/">>) /\ endswith(p, suffix)}

discover(root, suffix) ==
    sorted(rglob(DOMAIN disk, root, suffix))

\* ------------------------------------------------------------------------
\* Specification SpecRun: the main() of the three scripts, run one at a time
\* in any order over a corpus of four files

RunFiles ==
    {path_email, path_action, path_api_get, path_notes}

s_placeholder_then_null ==
    document(<<s_placeholder, s_null_validation>>)

RunDocPool ==
    {Corrupt, NoSpecs, document(<<s_e2e>>), document(<<s_both>>),
     document(<<s_success>>), document(<<s_e2e, Number>>),
     s_placeholder_then_null}

InitRun ==
    /\ disk \in {d \in [RunFiles -> RunDocPool] : d[path_notes] = document(<<s_e2e>>)}
    /\ last = NoCall
    /\ phase = 0
    /\ ran = {}
    /\ pc = "idle"
    /\ queue = <<>>
    /\ attempted = <<>>
    /\ total_files = 0
    /\ total_fixes = 0
    /\ summary = NoSummary
    /\ inp = NoInput
    /\ out = "pending"

\* main(): the counters are set to zero and the first loop's files are listed
start(stage, first_pc, root, suffix) ==
    /\ pc = "idle"
    /\ pc' = first_pc
    /\ queue' = discover(root, suffix)
    /\ attempted' = <<>>
    /\ total_files' = 0
    /\ total_fixes' = 0
    /\ UNCHANGED <<disk, last, phase, ran, summary, inp, out>>

\* one iteration of a main() loop: the per-document call on the next file,
\* then `if count > 0:` the two counters
visit(stage, r) ==
    /\ queue # <<>>
    /\ called(stage, Head(queue), r)
    /\ queue' = Tail(queue)
    /\ attempted' = attempted @@ (Head(queue) :> r.ret)
    /\ total_files' = IF r.ret > 0 THEN total_files + 1 ELSE total_files
    /\ total_fixes' = IF r.ret > 0 THEN total_fixes + r.ret ELSE total_fixes
    /\ UNCHANGED <<pc, phase, ran, summary, inp, out>>

\* the end of main(): the summary is printed
finish(stage) ==
    /\ queue = <<>>
    /\ pc' = "idle"
    /\ summary' = [stage |-> stage, total_files |-> total_files,
                   total_fixes |-> total_fixes]
    /\ ran' = ran \cup {stage}
    /\ phase' = advance(phase, stage)
    /\ UNCHANGED <<disk, last, queue, attempted, total_files, total_fixes, inp, out>>

StartAnnotator ==
    start("annotator", "annotator_tables", dir_app_tables, suffix_schema_json)

AnnotatorTablesStep ==
    /\ pc = "annotator_tables"
    /\ queue # <<>>
    /\ visit("annotator", process_file(disk[Head(queue)], Head(queue)))

AnnotatorNextRoot ==
    /\ pc = "annotator_tables"
    /\ queue = <<>>
    /\ pc' = "annotator_api"
    /\ queue' = discover(dir_api_tables, suffix_json)
    /\ UNCHANGED <<disk, last, phase, ran, attempted, total_files, total_fixes,
                   summary, inp, out>>

AnnotatorApiStep ==
    /\ pc = "annotator_api"
    /\ queue # <<>>
    /\ visit("annotator", process_file(disk[Head(queue)], Head(queue)))

AnnotatorFinish ==
    /\ pc = "annotator_api"
    /\ finish("annotator")

StartClassifier ==
    start("classifier", "classifier", dir_app_tables, suffix_schema_json)

ClassifierStep ==
    /\ pc = "classifier"
    /\ queue # <<>>
    /\ visit("classifier", fix_expect_error_null(disk[Head(queue)], Head(queue)))

ClassifierFinish ==
    /\ pc = "classifier"
    /\ finish("classifier")

StartReconciler ==
    start("reconciler", "reconciler", dir_app_tables, suffix_schema_json)

ReconcilerStep ==
    /\ pc = "reconciler"
    /\ queue # <<>>
    /\ visit("reconciler", fix_invalid_expect_errors(disk[Head(queue)], Head(queue)))

ReconcilerFinish ==
    /\ pc = "reconciler"
    /\ finish("reconciler")

NextRun ==
    \/ StartAnnotator
    \/ AnnotatorTablesStep
    \/ AnnotatorNextRoot
    \/ AnnotatorApiStep
    \/ AnnotatorFinish
    \/ StartClassifier
    \/ ClassifierStep
    \/ ClassifierFinish
    \/ StartReconciler
    \/ ReconcilerStep
    \/ ReconcilerFinish

SpecRun ==
    InitRun /\ [][NextRun]_vars

\* ------------------------------------------------------------------------
\* Reading a document: its scenarios and their assertions

has_specs(content) ==
    content # Corrupt /\ "x-specs" \in DOMAIN content

specs_of(content) ==
    IF has_specs(content) THEN content["x-specs"] ELSE <<>>

has_block(spec) ==
    is_dict(spec) /\ "validation" \in DOMAIN spec /\ is_dict(spec["validation"])

assertions_of(spec) ==
    IF has_block(spec) THEN get(spec["validation"], "assertions", <<>>) ELSE <<>>

\* the positions <<scenario, assertion>> of a document's assertions
positions(content) ==
    UNION {{<<i, j>> : j \in 1..Len(assertions_of(specs_of(content)[i]))} :
           i \in 1..Len(specs_of(content))}

assertion_at(content, ij) ==
    assertions_of(specs_of(content)[ij[1]])[ij[2]]

all_assertions(content) ==
    {assertion_at(content, ij) : ij \in positions(content)}

\* the explicit undetermined placeholder: the key is there and holds null
explicit_null(assertion) ==
    "expectError" \in DOMAIN assertion /\ assertion["expectError"] = Null

\* the file the latest call was made on, before and after the call
Before ==
    last.before

After ==
    disk[last.path]

\* ------------------------------------------------------------------------
\* C1  (as stated) The end-to-end scenario, unannotated, in a file whose path
\* contains "email": after Annotator, Classifier and Reconciler have run in
\* that order its single assertion has expectError = "must be a valid email
\* format".

\* the document holds the end-to-end scenario and nothing else
is_e2e_document(content) ==
    /\ has_specs(content)
    /\ Len(content["x-specs"]) = 1
    /\ is_dict(content["x-specs"][1])
    /\ del_key(content["x-specs"][1], "validation") = s_e2e

e2e_piped(p) ==
    phase = 3 /\ contains(p, kw_email) /\ is_e2e_document(disk[p])

C1_AsStated ==
    \A p \in DOMAIN disk :
        e2e_piped(p) =>
            /\ Len(assertions_of(disk[p]["x-specs"][1])) = 1
            /\ assertion_at(disk[p], <<1, 1>>)["expectError"] = Str(msg_email)

\* C1  (amended) After the three stages the single assertion of the end-to-end
\* scenario holds the message of the enumeration branch, because the when text
\* contains "invalid": "must be one of the allowed values" when the path
\* mentions none of action, format, style, aggregation, and the message of the
\* first of these the path mentions otherwise; it is the assertion the
\* Annotator synthesized, with only expectError filled in.
e2e_expected(p) ==
    IF contains(p, kw_action) THEN msg_action
    ELSE IF contains(p, kw_format) THEN msg_format
    ELSE IF contains(p, kw_style) THEN msg_style
    ELSE IF contains(p, kw_aggregation) THEN msg_aggregation
    ELSE msg_allowed

C1_Amended ==
    \A p \in DOMAIN disk :
        e2e_piped(p) =>
            /\ assertions_of(disk[p]["x-specs"][1]) =
                   << [description |-> txt_validation_error_is_returned,
                       validateConfig |-> TRUE,
                       expectError |-> Str(e2e_expected(p))] >>
            /\ (p = path_email =>
                   assertion_at(disk[p], <<1, 1>>)["expectError"] = Str(msg_allowed))

C1_Witness ==
    /\ path_email \in DOMAIN disk
    /\ e2e_piped(path_email)
    /\ last.stage = "reconciler"
    /\ assertion_at(disk[path_email], <<1, 1>>)["expectError"] = Str(msg_allowed)

\* ------------------------------------------------------------------------
\* C2  The Classifier changes an assertion only when it carries the explicit
\* placeholder (expectError present and null): an assertion with a concrete
\* message, or without an expectError key, is the same before and after the
\* call, and the count returned does not exceed the number of explicit
\* placeholders.
C2_ClassifierOnlyResolvesExplicitNull ==
    last.stage = "classifier" =>
        /\ \A ij \in positions(Before) :
               ~explicit_null(assertion_at(Before, ij)) =>
                   assertion_at(After, ij) = assertion_at(Before, ij)
        /\ last.ret <= Cardinality({ij \in positions(Before) :
                                       explicit_null(assertion_at(Before, ij))})

\* ------------------------------------------------------------------------
\* C4  After the Reconciler has gone through a document, no assertion of it
\* holds both expected and expectError; an assertion that held both keeps
\* expected (and everything else) and loses expectError, every other assertion
\* is unchanged, and the count returned is the number of assertions that held
\* both.
C4_MutualExclusivity ==
    (last.stage = "reconciler" /\ ~last.raised) =>
        /\ \A a \in all_assertions(After) : ~has_both(a)
        /\ positions(After) = positions(Before)
        /\ \A ij \in positions(Before) :
               LET a == assertion_at(Before, ij)
                   b == assertion_at(After, ij)
               IN  IF "expected" \in DOMAIN a /\ "expectError" \in DOMAIN a
                   THEN /\ DOMAIN b = (DOMAIN a) \ {"expectError"}
                        /\ \A k \in DOMAIN b : b[k] = a[k]
                   ELSE b = a
        /\ last.ret = Cardinality({ij \in positions(Before) :
                          {"expected", "expectError"} \subseteq
                              DOMAIN assertion_at(Before, ij)})

C4_Witness ==
    /\ last.stage = "reconciler"
    /\ ~last.raised
    /\ last.ret > 0
    /\ \E a \in all_assertions(Before) :
           {"expected", "expectError"} \subseteq DOMAIN a
    /\ \E a \in all_assertions(After) : "expected" \in DOMAIN a

\* ------------------------------------------------------------------------
\* C5  A run of the Annotator on a document it has already been run on returns
\* zero and leaves the file as it was; in any run a scenario that has a
\* validation key keeps it unchanged, a scenario that lacked one gets exactly
\* the placeholder block, and the count returned is the number of scenarios
\* that lacked one.
lacks_validation(spec) ==
    "validation" \notin DOMAIN spec

C5_AnnotatorIdempotent ==
    last.stage = "annotator" =>
        /\ "annotator" \in last.ranBefore =>
               last.ret = 0 /\ ~last.wrote /\ After = Before
        /\ Len(specs_of(After)) = Len(specs_of(Before))
        /\ \A i \in 1..Len(specs_of(Before)) :
               LET s == specs_of(Before)[i]
               IN  (is_dict(s) /\ ~lacks_validation(s)) => specs_of(After)[i] = s
        /\ ~last.raised =>
               /\ last.ret = Cardinality({i \in 1..Len(specs_of(Before)) :
                                             lacks_validation(specs_of(Before)[i])})
               /\ \A i \in 1..Len(specs_of(Before)) :
                      LET s == specs_of(Before)[i]
                          u == specs_of(After)[i]
                      IN  lacks_validation(s) =>
                              /\ del_key(u, "validation") = s
                              /\ Len(u["validation"]["assertions"]) = 1
                              /\ u["validation"]["assertions"][1]["expectError"] = Null

C5_Witness ==
    /\ last.stage = "annotator"
    /\ "annotator" \in last.ranBefore
    /\ last.ret = 0
    /\ \E i \in 1..Len(specs_of(After)) :
           /\ is_dict(specs_of(After)[i])
           /\ ~lacks_validation(specs_of(After)[i])
           /\ del_key(specs_of(After)[i], "validation") = s_e2e

\* ------------------------------------------------------------------------
\* C6  Once a document has been through Annotator, Classifier and Reconciler
\* in that order, a further run of any of the three stages on it returns zero,
\* does not write the file, and leaves no assertion holding both expected and
\* expectError.
C6_StagesIdempotentAfterPipeline ==
    (last.stage # "none" /\ last.phaseBefore = 3) =>
        /\ last.ret = 0
        /\ ~last.wrote
        /\ After = Before
        /\ \A a \in all_assertions(After) : ~has_both(a)

\* ------------------------------------------------------------------------
\* C8  In each stage the file is written exactly when the count the stage
\* returns for the document is positive; a file that is not written keeps its
\* content, a written file has new content, and a document without an x-specs
\* key is never written.
C8_WriteBackOnlyOnChange ==
    last.stage # "none" =>
        /\ last.wrote <=> last.ret > 0
        /\ ~last.wrote => After = Before
        /\ last.wrote => After # Before
        /\ ~has_specs(Before) => ~last.wrote

C8_Witness ==
    /\ last.stage = "classifier"
    /\ ~last.raised
    /\ has_specs(Before)
    /\ all_assertions(Before) # {}
    /\ last.ret = 0
    /\ ~last.wrote
    /\ After = Before

\* ------------------------------------------------------------------------
\* C7  Whenever the case-folded given or when text contains "invalid", the
\* message is chosen by the enumeration branch alone, whatever the then text
\* says: the action vocabulary if the path or the field name contains
\* "action", else the allowed-format message if either contains "format",
\* else the style message if either contains "style", else the aggregation
\* vocabulary if the path contains "aggregation", else "must be one of the
\* allowed values"; never a structural, schema or fallback message.
mentions_invalid(i) ==
    contains(lower(i.given), kw_invalid) \/ contains(lower(i.when), kw_invalid)

in_path_or_name(i, k) ==
    contains(i.path, k) \/ contains(i.name, k)

C7_EnumerationBranchFirst ==
    (out # "pending" /\ mentions_invalid(inp)) =>
        /\ in_path_or_name(inp, kw_action) => out = msg_action
        /\ (~in_path_or_name(inp, kw_action) /\ in_path_or_name(inp, kw_format))
               => out = msg_format
        /\ (/\ ~in_path_or_name(inp, kw_action)
            /\ ~in_path_or_name(inp, kw_format)
            /\ in_path_or_name(inp, kw_style))
               => out = msg_style
        /\ (/\ ~in_path_or_name(inp, kw_action)
            /\ ~in_path_or_name(inp, kw_format)
            /\ ~in_path_or_name(inp, kw_style)
            /\ contains(inp.path, kw_aggregation))
               => out = msg_aggregation
        /\ (/\ ~in_path_or_name(inp, kw_action)
            /\ ~in_path_or_name(inp, kw_format)
            /\ ~in_path_or_name(inp, kw_style)
            /\ ~contains(inp.path, kw_aggregation))
               => out = msg_allowed
        /\ out \in {msg_action, msg_format, msg_style, msg_aggregation, msg_allowed}

\* the priority example: "field has invalid format value", an outcome text with
\* "validation" and "error" in it, a path with "format" in it
C7_Witness ==
    /\ out = msg_format
    /\ inp.given = txt_field_has_invalid_format_value
    /\ inp.then = kw_validation \o w_space \o kw_error \o w_space \o w_returned
    /\ inp.path = path_format
    /\ inp.name = str_example_field

\* ------------------------------------------------------------------------
\* C10  determine_error_message always returns one of its concrete messages,
\* and returns exactly "validation error" when no rule yields one: given and
\* when lack "invalid", and then either lacks both "validation" and "error",
\* or has one of them but none of pattern, format, type, required, minimum,
\* maximum, length and not both "schema" and "validation".  Empty given, when
\* and then give "validation error".
then_has(i, k) ==
    contains(lower(i.then), k)

no_rule_matches(i) ==
    /\ ~mentions_invalid(i)
    /\ \/ ~then_has(i, kw_validation) /\ ~then_has(i, kw_error)
       \/ /\ then_has(i, kw_validation) \/ then_has(i, kw_error)
          /\ \A k \in {kw_pattern, kw_format, kw_type, kw_required, kw_minimum,
                       kw_maximum, kw_length} : ~then_has(i, k)
          /\ ~(then_has(i, kw_schema) /\ then_has(i, kw_validation))

C10_FallbackTotality ==
    out # "pending" =>
        /\ out \in Messages
        /\ no_rule_matches(inp) => out = "validation error"
        /\ (inp.given = <<>> /\ inp.when = <<>> /\ inp.then = <<>>)
               => out = "validation error"

C10_Witness ==
    /\ out = "validation error"
    /\ inp.given = <<>>
    /\ inp.when = <<>>
    /\ inp.then = <<>>

\* ------------------------------------------------------------------------
\* The files a stage's main() lists, and what a run has visited

discovered_by(stage) ==
    IF stage = "annotator"
    THEN rglob(DOMAIN disk, dir_app_tables, suffix_schema_json) \cup
         rglob(DOMAIN disk, dir_api_tables, suffix_json)
    ELSE rglob(DOMAIN disk, dir_app_tables, suffix_schema_json)

\* the two roots of the corpus layout
discovered_corpus ==
    rglob(DOMAIN disk, dir_app_tables, suffix_schema_json) \cup
    rglob(DOMAIN disk, dir_api_tables, suffix_json)

running_stage ==
    IF pc \in {"annotator_tables", "annotator_api"} THEN "annotator" ELSE pc

RECURSIVE sum_of(_, _)
sum_of(f, S) ==
    IF S = {} THEN 0
    ELSE LET x == CHOOSE y \in S : TRUE IN f[x] + sum_of(f, S \ {x})

\* ------------------------------------------------------------------------
\* C3  After the main() of the Annotator, then of the Classifier, then of the
\* Reconciler have run over the corpus, no assertion of any discovered document
\* with an x-specs key, under the schema root or under the API-path root, still
\* holds the null placeholder.  (Stated for the documents whose scenarios are
\* all objects with no validation key or a validation object, which no stage
\* fails on.)
well_formed(content) ==
    \A i \in 1..Len(specs_of(content)) :
        LET s == specs_of(content)[i]
        IN  is_dict(s) /\ ("validation" \in DOMAIN s => is_dict(s["validation"]))

C3_NoPlaceholderAfterPipeline ==
    (pc = "idle" /\ phase = 3) =>
        \A p \in discovered_corpus :
            (has_specs(disk[p]) /\ well_formed(disk[p])) =>
                \A a \in all_assertions(disk[p]) : ~explicit_null(a)

\* ------------------------------------------------------------------------
\* C9  A document whose load, parse or transform fails contributes a count of
\* zero and is not written (the file keeps its content, also when earlier
\* scenarios were already changed in memory); the run goes on to every
\* remaining discovered document: while a main() runs, the files visited and
\* the files still queued are the files it discovered, and when its summary is
\* printed every discovered file has been visited and the totals count only
\* the documents that returned a positive count.
C9_FailureIsolation ==
    /\ (last.stage # "none" /\ last.raised) =>
           /\ last.ret = 0
           /\ ~last.wrote
           /\ After = Before
    /\ pc # "idle" =>
           /\ DOMAIN attempted \cup {queue[i] : i \in 1..Len(queue)}
                  \subseteq discovered_by(running_stage)
           /\ pc # "annotator_tables" =>
                  DOMAIN attempted \cup {queue[i] : i \in 1..Len(queue)}
                      = discovered_by(running_stage)
    /\ (pc = "idle" /\ summary.stage # "none") =>
           /\ DOMAIN attempted = discovered_by(summary.stage)
           /\ summary.total_fixes = sum_of(attempted, DOMAIN attempted)
           /\ summary.total_files =
                  Cardinality({p \in DOMAIN attempted : attempted[p] > 0})

\* a transform failure after a scenario was already annotated in memory, with
\* a later document of the same run still written
C9_Witness ==
    /\ pc = "idle"
    /\ summary.stage = "annotator"
    /\ summary.total_files > 0
    /\ \E p \in DOMAIN attempted :
           /\ disk[p] = document(<<s_e2e, Number>>)
           /\ attempted[p] = 0
           /\ \E q \in DOMAIN attempted : str_less(p, q) /\ attempted[q] > 0

====
